---- MODULE Spec2Model ----
(***************************************************************************)
(* Model of django_twilio/decorators.py: the decorator twilio_view and the *)
(* view wrapper decorated_view it installs around a Django view f.         *)
(*                                                                         *)
(* Python values are tagged records ([type |-> "str", val |-> ...]); a     *)
(* mapping (settings, request.META, request.GET, request.POST) is a        *)
(* function whose DOMAIN is the set of keys present.  Each worker w runs   *)
(* one call of decorated_view at a time; pc[w] is the position of that     *)
(* call in the body of decorated_view.                                     *)
(***************************************************************************)
EXTENDS Integers, Sequences, FiniteSets, TLC

VARIABLES
    settings,       \* django.conf.settings: name -> value, for the names set
    token,          \* module global TWILIO_AUTH_TOKEN
    blacklist,      \* deny-list state read by get_blacklisted_response
    view,           \* the object given to twilio_view and what became of it
    pc,             \* per worker: position in decorated_view
    request,        \* per worker: the request argument
    callargs,       \* per worker: [self, args, kwargs] of the call
    locals,         \* per worker: local variables of decorated_view
    calls,          \* per worker: collaborators called so far, in order
    trace,          \* per worker: statements of decorated_view run so far
    result          \* per worker: how the call ended (return / raise)

vars ==
    <<settings, token, blacklist, view, pc, request, callargs, locals, calls, trace,
      result>>

----------------------------------------------------------------------------
(* Python values *)

None == [type |-> "NoneType"]
Str(s) == [type |-> "str", val |-> s]
Bytes(s) == [type |-> "bytes", val |-> s]
Verb(xml) == [type |-> "Verb", xml |-> xml]

\* truth value of a Python object, as an `if x:` tests it
Truthy(v) ==
    CASE v.type = "NoneType" -> FALSE
      [] v.type = "str" -> v.val # ""
      [] v.type = "bytes" -> v.val # ""
      [] OTHER -> TRUE

\* getattr(obj, name, default) on an object whose attributes are DOMAIN obj
getattr(obj, name, default) ==
    IF name \in DOMAIN obj THEN obj[name] ELSE default

EmptyDict == [k \in {} |-> ""]

----------------------------------------------------------------------------
(* django.http responses built by the view wrapper *)

HttpResponseNotAllowed(permitted_methods) ==
    [type |-> "HttpResponseNotAllowed", status |-> 405,
     allow |-> permitted_methods]

HttpResponseForbidden ==
    [type |-> "HttpResponseForbidden", status |-> 403]

HttpResponse(content, content_type) ==
    [type |-> "HttpResponse", status |-> 200,
     content_type |-> content_type, content |-> content]

----------------------------------------------------------------------------
(* twilio.util.RequestValidator *)

\* parameter names in sorted order
SortedNames == <<"Body", "From">>

RECURSIVE JoinParams(_, _)
JoinParams(params, i) ==
    IF i > Len(SortedNames) THEN <<>>
    ELSE LET k == SortedNames[i] IN
         (IF k \in DOMAIN params THEN <<k, params[k]>> ELSE <<>>)
            \o JoinParams(params, i + 1)

\* RequestValidator.compute_signature: base64(HMAC(token, uri + k1 + v1 + ...))
compute_signature(tok, uri, params) ==
    [hmac_key |-> tok, uri |-> uri, data |-> JoinParams(params, 1)]

\* RequestValidator(token): token.encode(...) raises on a token that is no string
RequestValidator(tok) ==
    IF tok.type = "str" THEN [raised |-> "", validator |-> [token |-> tok.val]]
    ELSE [raised |-> "AttributeError", validator |-> [token |-> ""]]

\* RequestValidator.validate(uri, params, signature)
validate(validator, uri, params, signature) ==
    compute_signature(validator.token, uri, params) = signature

----------------------------------------------------------------------------
(* Inputs *)

Workers == {1}
SignatureName == "HTTP_X_TWILIO_SIGNATURE"
Methods == {"GET", "POST", "PUT"}
Hosts == {"https://example.com"}
Paths == {"/sms"}
Callers == {"+15551234567", "+15557654321"}
Secret == "abc123"
Tokens == {None, Str(Secret)}

ParamSets ==
    {EmptyDict,
     ("From" :> "+15551234567"),
     ("Body" :> "hi" @@ "From" :> "+15557654321")}

build_absolute_uri_PathOnly(req) == <<req.path>>
\* request.build_absolute_uri()
build_absolute_uri(req) == <<req.host, req.path>>

AbsoluteUris == {<<h, p>> : h \in Hosts, p \in Paths}

\* a header value that differs from the signature s in one byte
Tampered(s) == [tampered |-> s]

\* values a sender may put in the X-Twilio-Signature header
Signatures ==
    {compute_signature(Secret, u, p) : u \in AbsoluteUris, p \in ParamSets}
        \cup {compute_signature("not-the-secret", u, EmptyDict) :
                    u \in AbsoluteUris}
        \cup {Tampered(compute_signature(Secret, u, ("From" :> "+15551234567"))) :
                    u \in AbsoluteUris}
        \cup {Str("")}

Metas ==
    {EmptyDict} \cup {("HTTP_X_TWILIO_SIGNATURE" :> s) : s \in Signatures}

\* Django parses the form body into request.POST for POST requests only
Requests ==
    {[method |-> m, host |-> h, path |-> p, GET |-> g, POST |-> b, META |-> e] :
        m \in Methods, h \in Hosts, p \in Paths, g \in ParamSets,
        b \in ParamSets, e \in Metas}

WellFormedRequest(req) ==
    req.method # "POST" => req.POST = EmptyDict

\* longest positional argument list of a call of decorated_view
MaxArgs == 1

\* *args and **kwargs of a call of decorated_view
CallArgs ==
    {[args |-> [i \in 1..n |-> i], kwargs |-> k] :
        n \in 0..MaxArgs, k \in {EmptyDict, ("slug" :> "inbound")}}

\* what the wrapped view f may return
ViewResults ==
    {Str("<Response/>"), Bytes("<Response/>"), Verb("<Response><Say/></Response>"),
     [type |-> "HttpResponse", status |-> 200, content_type |-> "text/html",
      content |-> Str("ok")],
     None}

\* the response get_blacklisted_response builds for a blacklisted caller
RejectResponses ==
    {HttpResponse(Str("<Response><Reject/></Response>"), "text/xml")}

SettingsSpace ==
    {s \in UNION {[d -> BOOLEAN] :
            d \in {{"DEBUG"} \cup o :
                o \in SUBSET {"DJANGO_TWILIO_FORGERY_PROTECTION",
                              "DJANGO_TWILIO_BLACKLIST_CHECK"}}} : TRUE}

NoLocals ==
    [use_forgery_protection |-> FALSE, check_blacklist |-> FALSE,
     validator |-> [token |-> ""], url |-> <<>>, signature |-> None,
     blacklisted_resp |-> None, response |-> None]

NoResult == [kind |-> "none"]

----------------------------------------------------------------------------
(* django_twilio.utils.get_blacklisted_response *)

get_blacklisted_response(req) ==
    LET data == IF req.method = "GET" THEN req.GET ELSE req.POST IN
    IF "From" \in DOMAIN data /\ data["From"] \in DOMAIN blacklist
    THEN blacklist[data["From"]]
    ELSE None

----------------------------------------------------------------------------
(* twilio_view *)

\* what twilio_view may be applied to: a view function; a method as the def
\* statement in a class body makes it (a function taking self, which is what
\* a decorator in the class body receives); a method object, for which
\* inspect.ismethod holds; a subclass of View; a class that is no subclass of
\* View; an object that is not callable and has no __name__
Things ==
    {"function", "method_function", "method", "class", "other_class", "object"}

\* the receiver a method or a class-based view is called on
SelfObject == [type |-> "View"]

\* the branch twilio_view takes: method_decorator(_twilio_function_view) for a
\* View subclass (on its dispatch) and for a method, else _twilio_function_view
twilio_view(thing) ==
    IF thing = "class" THEN "method_decorator"
    ELSE IF thing = "method" THEN "method_decorator"
    ELSE "function"

\* @wraps(f): copying __name__ raises AttributeError on Python 2 when f has
\* none and is skipped on Python 3
WrapsOutcomes(thing) ==
    IF thing = "object" THEN {"", "AttributeError"} ELSE {""}

\* the positional arguments the host passes to the decorated thing
HostCall(thing, req, args) ==
    IF thing \in {"method_function", "method", "class"}
    THEN <<SelfObject, req>> \o args
    ELSE <<req>> \o args

\* binding of the positional arguments to decorated_view(request, *args):
\* the wrapper method_decorator builds takes self off first and binds f to it
Enter(via, positional) ==
    IF via = "method_decorator"
    THEN [self |-> Head(positional), request |-> Head(Tail(positional)),
          args |-> Tail(Tail(positional))]
    ELSE [self |-> None, request |-> Head(positional),
          args |-> Tail(positional)]

\* isinstance(request, HttpRequest)
IsHttpRequest(x) == "method" \in DOMAIN x

\* what calling f may do: a view returns or raises; a class that is no view
\* is instantiated or rejects the arguments; another object is not callable
ViewOutcomes(thing) ==
    IF thing \in {"function", "method_function", "method", "class"}
    THEN {[raised |-> FALSE, exc |-> "", result |-> r] : r \in ViewResults}
            \cup {[raised |-> TRUE, exc |-> "Exception", result |-> None]}
    ELSE IF thing = "other_class"
    THEN {[raised |-> FALSE, exc |-> "", result |-> [type |-> "object"]],
          [raised |-> TRUE, exc |-> "TypeError", result |-> None]}
    ELSE {[raised |-> TRUE, exc |-> "TypeError", result |-> None]}

Unwired(thing) == [thing |-> thing, state |-> "unwired", via |-> ""]

----------------------------------------------------------------------------
(* decorated_view *)

Return(value, line) == [kind |-> "return", value |-> value, line |-> line]
Raise(exc, line) == [kind |-> "raise", exc |-> exc, line |-> line]

UseForgeryProtection_DebugOnly(s) == ~s["DEBUG"]
UseForgeryProtection_AlwaysOn(s) == TRUE
\* use_forgery_protection = getattr(settings, ..., not settings.DEBUG)
UseForgeryProtection(s) ==
    getattr(s, "DJANGO_TWILIO_FORGERY_PROTECTION", ~s["DEBUG"])

\* check_blacklist = getattr(settings, ..., True)
CheckBlacklist(s) == getattr(s, "DJANGO_TWILIO_BLACKLIST_CHECK", TRUE)

MethodAllowed_Any(method) == TRUE
\* request.method in ['GET', 'POST']
MethodAllowed(method) == method \in {"GET", "POST"}

ExceptClause_KeyErrorOnly == {"KeyError"}
ExceptClause_AttributeErrorOnly == {"AttributeError"}
\* exceptions the except clause of the forgery check handles
ExceptClause == {"AttributeError", "KeyError"}

ValidatedParams_AlwaysGET(req) == req.GET
\* the mapping passed to validate: request.POST for POST, request.GET for GET
ValidatedParams(req) == IF req.method = "POST" THEN req.POST ELSE req.GET

ForgeryCheckFails_Never(ok) == FALSE
ForgeryCheckFails_Inverted(ok) == ok
\* if not validator.validate(...)
ForgeryCheckFails(ok) == ~ok

AfterForgeryCheck_View == "view"
AfterForgeryCheck_Retry == "assemble"
\* the statement that follows a passed forgery check
AfterForgeryCheck == "blacklist"

BlacklistReturn_Forbidden(resp) == Return(HttpResponseForbidden, 132)
\* return blacklisted_resp
BlacklistReturn(resp) == Return(resp, 132)

\* str(response) of a twilio.twiml.Verb
VerbToStr(v) == Str(v.xml)

Coerce_BytesUnwrapped(response) ==
    IF response.type = "str"
    THEN Return(HttpResponse(response, "application/xml"), 137)
    ELSE IF response.type = "Verb"
    THEN Return(HttpResponse(VerbToStr(response), "application/xml"), 139)
    ELSE Return(response, 141)
Coerce_WrapAll(response) ==
    IF response.type = "Verb"
    THEN Return(HttpResponse(VerbToStr(response), "application/xml"), 139)
    ELSE Return(HttpResponse(response, "application/xml"), 137)
\* the value decorated_view returns for the view's return value
Coerce(response) ==
    IF response.type \in {"str", "bytes"}
    THEN Return(HttpResponse(response, "application/xml"), 137)
    ELSE IF response.type = "Verb"
    THEN Return(HttpResponse(VerbToStr(response), "application/xml"), 139)
    ELSE Return(response, 141)

ViewCall_KwargsDropped(req, ca) ==
    [fn |-> "f", self |-> ca.self, request |-> req, args |-> ca.args,
     kwargs |-> EmptyDict]
\* f(request, *args, **kwargs), f bound to self for a method
ViewCall(req, ca) ==
    [fn |-> "f", self |-> ca.self, request |-> req, args |-> ca.args,
     kwargs |-> ca.kwargs]

Frame_Shared(w) == CHOOSE v \in DOMAIN pc : \A u \in DOMAIN pc : v <= u
\* the frame holding the local variables of the call worker w runs
Frame(w) == w

Init ==
    /\ settings \in SettingsSpace
    /\ token \in Tokens
    /\ blacklist \in [Callers -> {None} \cup RejectResponses]
    /\ view = Unwired("function")
    /\ pc = [w \in Workers |-> "idle"]
    /\ request = [w \in Workers |-> None]
    /\ callargs = [w \in Workers |-> None]
    /\ locals = [w \in Workers |-> NoLocals]
    /\ calls = [w \in Workers |-> <<>>]
    /\ trace = [w \in Workers |-> <<>>]
    /\ result = [w \in Workers |-> NoResult]

Config == <<settings, token, blacklist>>
Wiring == <<Config, view>>

\* decorated_thing = twilio_view(thing)
Wire ==
    /\ view.state = "unwired"
    /\ \E raised \in WrapsOutcomes(view.thing) :
        view' = IF raised = ""
                THEN [thing |-> view.thing, state |-> "wired",
                      via |-> twilio_view(view.thing)]
                ELSE [thing |-> view.thing, state |-> "failed", via |-> ""]
    /\ UNCHANGED <<Config, pc, request, callargs, locals, calls, trace, result>>

\* the statement at pc[w] has run
Step(w, to) ==
    /\ pc' = [pc EXCEPT ![w] = to]
    /\ trace' = [trace EXCEPT ![w] = Append(@, pc[w])]

\* the host calls the decorated thing with a request of reqs and arguments
\* of cas; decorated_view asserts that its request is an HttpRequest
ReceiveFrom(w, reqs, cas) ==
    /\ view.state = "wired"
    /\ pc[w] = "idle"
    /\ \E req \in reqs, ca \in cas :
        LET entry == Enter(view.via, HostCall(view.thing, req, ca.args)) IN
        /\ WellFormedRequest(req)
        /\ request' = [request EXCEPT ![w] = entry.request]
        /\ callargs' = [callargs EXCEPT ![w] =
                [self |-> entry.self, args |-> entry.args, kwargs |-> ca.kwargs]]
        /\ IF IsHttpRequest(entry.request)
           THEN /\ pc' = [pc EXCEPT ![w] = "enforce"]
                /\ UNCHANGED result
           ELSE /\ pc' = [pc EXCEPT ![w] = "done"]
                /\ result' = [result EXCEPT ![w] = Raise("AssertionError", 93)]
    /\ UNCHANGED <<Wiring, locals, calls, trace>>

Receive(w) == ReceiveFrom(w, Requests, CallArgs)

\* use_forgery_protection = ...; if use_forgery_protection:
DetermineEnforcement(w) ==
    /\ pc[w] = "enforce"
    /\ LET ufp == UseForgeryProtection(settings) IN
        /\ locals' = [locals EXCEPT ![w].use_forgery_protection = ufp]
        /\ Step(w, IF ufp THEN "method" ELSE "blacklist")
    /\ UNCHANGED <<Wiring, request, callargs, calls, result>>

\* if request.method not in ['GET', 'POST']: return HttpResponseNotAllowed
MethodCheck(w) ==
    /\ pc[w] = "method"
    /\ IF ~MethodAllowed(request[w].method)
       THEN /\ result' = [result EXCEPT ![w] =
                    Return(HttpResponseNotAllowed(request[w].method), 106)]
            /\ Step(w, "done")
       ELSE /\ Step(w, "assemble")
            /\ UNCHANGED result
    /\ UNCHANGED <<Wiring, request, callargs, locals, calls>>

\* the try block of the forgery check and its except clause
AssembleInputs(w) ==
    /\ pc[w] = "assemble"
    /\ LET rv == RequestValidator(token)
           meta == request[w].META
           raised == IF rv.raised # "" THEN rv.raised
                     ELSE IF "HTTP_X_TWILIO_SIGNATURE" \notin DOMAIN meta
                          THEN "KeyError" ELSE ""
       IN
       IF raised = ""
       THEN /\ locals' = [locals EXCEPT
                    ![Frame(w)].validator = rv.validator,
                    ![Frame(w)].url = build_absolute_uri(request[w]),
                    ![Frame(w)].signature = meta["HTTP_X_TWILIO_SIGNATURE"]]
            /\ Step(w, "validate")
            /\ UNCHANGED result
       ELSE /\ result' = [result EXCEPT ![w] =
                    IF raised \in ExceptClause
                    THEN Return(HttpResponseForbidden, 114)
                    ELSE Raise(raised, IF raised = "KeyError" THEN 112 ELSE 110)]
            /\ Step(w, "done")
            /\ UNCHANGED locals
    /\ UNCHANGED <<Wiring, request, callargs, calls>>

\* if request.method == 'POST': ... elif request.method == 'GET': ...
Validate(w) ==
    /\ pc[w] = "validate"
    /\ LET req == request[w]
           l == locals[Frame(w)]
           params == ValidatedParams(req)
           ok == validate(l.validator, l.url, params, l.signature)
       IN
       IF req.method \in {"POST", "GET"}
       THEN /\ calls' = [calls EXCEPT ![w] = Append(@,
                    [fn |-> "validate", url |-> l.url, params |-> params,
                     signature |-> l.signature, result |-> ok])]
            /\ IF ForgeryCheckFails(ok)
               THEN /\ result' = [result EXCEPT ![w] =
                            Return(HttpResponseForbidden,
                                   IF req.method = "POST" THEN 118 ELSE 121)]
                    /\ Step(w, "done")
               ELSE /\ Step(w, AfterForgeryCheck)
                    /\ UNCHANGED result
       ELSE /\ Step(w, AfterForgeryCheck)
            /\ UNCHANGED <<calls, result>>
    /\ UNCHANGED <<Wiring, request, callargs, locals>>

\* check_blacklist = ...; if check_blacklist: ... if blacklisted_resp: return
BlacklistCheck(w) ==
    /\ pc[w] = "blacklist"
    /\ LET cb == CheckBlacklist(settings)
           resp == get_blacklisted_response(request[w])
       IN
       IF cb
       THEN /\ locals' = [locals EXCEPT ![w].check_blacklist = cb,
                                        ![w].blacklisted_resp = resp]
            /\ calls' = [calls EXCEPT ![w] = Append(@,
                    [fn |-> "get_blacklisted_response",
                     request |-> request[w], result |-> resp])]
            /\ IF Truthy(resp)
               THEN /\ result' = [result EXCEPT ![w] = BlacklistReturn(resp)]
                    /\ Step(w, "done")
               ELSE /\ Step(w, "view")
                    /\ UNCHANGED result
       ELSE /\ locals' = [locals EXCEPT ![w].check_blacklist = cb]
            /\ Step(w, "view")
            /\ UNCHANGED <<calls, result>>
    /\ UNCHANGED <<Wiring, request, callargs>>

\* response = f(request, *args, **kwargs); an exception of f propagates
InvokeView(w) ==
    /\ pc[w] = "view"
    /\ \E o \in ViewOutcomes(view.thing) :
        /\ calls' = [calls EXCEPT ![w] = Append(@,
                ViewCall(request[w], callargs[w])
                    @@ [raised |-> o.raised, result |-> o.result])]
        /\ IF o.raised
           THEN /\ result' = [result EXCEPT ![w] = Raise(o.exc, 134)]
                /\ Step(w, "done")
                /\ UNCHANGED locals
           ELSE /\ locals' = [locals EXCEPT ![w].response = o.result]
                /\ Step(w, "coerce")
                /\ UNCHANGED result
    /\ UNCHANGED <<Wiring, request, callargs>>

\* the isinstance chain on the view's return value
CoerceResult(w) ==
    /\ pc[w] = "coerce"
    /\ result' = [result EXCEPT ![w] = Coerce(locals[w].response)]
    /\ Step(w, "done")
    /\ UNCHANGED <<Wiring, request, callargs, locals, calls>>

\* the host takes the outcome of the call; the worker is free again
Respond(w) ==
    /\ pc[w] = "done"
    /\ pc' = [pc EXCEPT ![w] = "idle"]
    /\ request' = [request EXCEPT ![w] = None]
    /\ callargs' = [callargs EXCEPT ![w] = None]
    /\ locals' = [locals EXCEPT ![w] = NoLocals]
    /\ calls' = [calls EXCEPT ![w] = <<>>]
    /\ trace' = [trace EXCEPT ![w] = <<>>]
    /\ result' = [result EXCEPT ![w] = NoResult]
    /\ UNCHANGED Wiring

Next ==
    \/ Wire
    \/ \E w \in DOMAIN pc :
        \/ Receive(w)
        \/ DetermineEnforcement(w)
        \/ MethodCheck(w)
        \/ AssembleInputs(w)
        \/ Validate(w)
        \/ BlacklistCheck(w)
        \/ InvokeView(w)
        \/ CoerceResult(w)
        \/ Respond(w)

Spec == Init /\ [][Next]_vars

----------------------------------------------------------------------------
(* twilio_view applied to each kind of thing *)

\* settings that leave DJANGO_TWILIO_BLACKLIST_CHECK at its default
DefaultBlacklistSettings ==
    {st \in SettingsSpace : "DJANGO_TWILIO_BLACKLIST_CHECK" \notin DOMAIN st}

\* a deny-list with one blacklisted caller
OneBlacklisted ==
    [c \in Callers |->
        IF c = "+15557654321"
        THEN HttpResponse(Str("<Response><Reject/></Response>"), "text/xml")
        ELSE None]

InitWiring ==
    /\ settings \in DefaultBlacklistSettings
    /\ token \in Tokens
    /\ blacklist = OneBlacklisted
    /\ view \in {Unwired(t) : t \in Things}
    /\ pc = [w \in Workers |-> "idle"]
    /\ request = [w \in Workers |-> None]
    /\ callargs = [w \in Workers |-> None]
    /\ locals = [w \in Workers |-> NoLocals]
    /\ calls = [w \in Workers |-> <<>>]
    /\ trace = [w \in Workers |-> <<>>]
    /\ result = [w \in Workers |-> NoResult]

SpecWiring == InitWiring /\ [][Next]_vars

----------------------------------------------------------------------------
(* several calls of decorated_view in flight at once *)

ConcurrentWorkers == {1, 2}

\* the requests the concurrent workers are sent: an authentic GET, an
\* authentic POST of the blacklisted caller, a tampered GET, an unsigned PUT
ConcurrentRequests ==
    LET uri == <<"https://example.com", "/sms">>
        base == [host |-> "https://example.com", path |-> "/sms",
                 GET |-> EmptyDict, POST |-> EmptyDict, META |-> EmptyDict]
        c1 == ("From" :> "+15551234567")
        c2 == ("Body" :> "hi" @@ "From" :> "+15557654321")
    IN
    {[base EXCEPT !.GET = c1,
        !.META = (SignatureName :> compute_signature(Secret, uri, c1))]
        @@ [method |-> "GET"],
     [base EXCEPT !.POST = c2,
        !.META = (SignatureName :> compute_signature(Secret, uri, c2))]
        @@ [method |-> "POST"],
     [base EXCEPT !.GET = c1,
        !.META = (SignatureName :> Tampered(compute_signature(Secret, uri, c1)))]
        @@ [method |-> "GET"],
     base @@ [method |-> "PUT"]}

ConcurrentCallArgs == {[args |-> <<>>, kwargs |-> EmptyDict]}

InitConcurrent ==
    /\ settings \in DefaultBlacklistSettings
    /\ token = Str(Secret)
    /\ blacklist = OneBlacklisted
    /\ view = Unwired("function")
    /\ pc = [w \in ConcurrentWorkers |-> "idle"]
    /\ request = [w \in ConcurrentWorkers |-> None]
    /\ callargs = [w \in ConcurrentWorkers |-> None]
    /\ locals = [w \in ConcurrentWorkers |-> NoLocals]
    /\ calls = [w \in ConcurrentWorkers |-> <<>>]
    /\ trace = [w \in ConcurrentWorkers |-> <<>>]
    /\ result = [w \in ConcurrentWorkers |-> NoResult]

ReceiveConcurrent(w) == ReceiveFrom(w, ConcurrentRequests, ConcurrentCallArgs)

NextConcurrent ==
    \/ Wire
    \/ \E w \in DOMAIN pc :
        \/ ReceiveConcurrent(w)
        \/ DetermineEnforcement(w)
        \/ MethodCheck(w)
        \/ AssembleInputs(w)
        \/ Validate(w)
        \/ BlacklistCheck(w)
        \/ InvokeView(w)
        \/ CoerceResult(w)
        \/ Respond(w)

SpecConcurrent == InitConcurrent /\ [][NextConcurrent]_vars

----------------------------------------------------------------------------
(* Vocabulary of the properties *)

SignatureHeader == "HTTP_X_TWILIO_SIGNATURE"

\* the forgery-protection setting as configured: explicit value, else not DEBUG
Enforced ==
    IF "DJANGO_TWILIO_FORGERY_PROTECTION" \in DOMAIN settings
    THEN settings["DJANGO_TWILIO_FORGERY_PROTECTION"]
    ELSE ~settings["DEBUG"]

\* the blacklist-check setting as configured: explicit value, else on
BlacklistEnabled ==
    IF "DJANGO_TWILIO_BLACKLIST_CHECK" \in DOMAIN settings
    THEN settings["DJANGO_TWILIO_BLACKLIST_CHECK"]
    ELSE TRUE

InFlight == {w \in DOMAIN pc : pc[w] # "idle"}
Finished == {w \in DOMAIN pc : pc[w] = "done"}

CallsOf(w, fn) == {i \in 1..Len(calls[w]) : calls[w][i].fn = fn}
Ran(w, stmt) == \E i \in 1..Len(trace[w]) : trace[w][i] = stmt

HasHeader(req) == SignatureHeader \in DOMAIN req.META
SecretAvailable == token.type = "str"
MethodParams(req) ==
    CASE req.method = "GET" -> req.GET
      [] req.method = "POST" -> req.POST
AbsoluteUri(req) == <<req.host, req.path>>

\* the request carries the signature of its own URL and method parameters
Authentic(req) ==
    /\ req.method \in {"GET", "POST"}
    /\ HasHeader(req)
    /\ SecretAvailable
    /\ req.META[SignatureHeader] =
            compute_signature(token.val, AbsoluteUri(req), MethodParams(req))

Returned(w) == result[w].kind = "return"
Returned405(w) ==
    /\ Returned(w)
    /\ result[w].value.type = "HttpResponseNotAllowed"
    /\ result[w].value.status = 405
    /\ result[w].line = 106
Returned403(w) ==
    /\ Returned(w)
    /\ result[w].value = [type |-> "HttpResponseForbidden", status |-> 403]
    /\ result[w].line \in {114, 118, 121}
GateRejected(w) == Returned405(w) \/ Returned403(w)

----------------------------------------------------------------------------
(* Properties *)

\* C1: the view f is invoked only behind the gates: under forgery
\* protection only for a GET or POST request whose header is present, with
\* the secret available and a validate call that accepted; under the
\* blacklist check only after get_blacklisted_response returned None.  A
\* request that fails verification or is denied never reaches f.
C1_HandlerOnlyBehindGates ==
    \A w \in InFlight :
        /\ CallsOf(w, "f") # {} =>
            /\ Enforced =>
                /\ Authentic(request[w])
                /\ \E i \in CallsOf(w, "validate") : calls[w][i].result
            /\ BlacklistEnabled =>
                /\ get_blacklisted_response(request[w]) = None
                /\ \E i \in CallsOf(w, "get_blacklisted_response") :
                        calls[w][i].result = None
        /\ (w \in Finished /\ Enforced /\ ~Authentic(request[w]))
                => CallsOf(w, "f") = {}
        /\ (w \in Finished /\ BlacklistEnabled
                /\ get_blacklisted_response(request[w]) # None)
                => CallsOf(w, "f") = {}

C1_Witness ==
    \E w \in Finished :
        /\ Enforced /\ BlacklistEnabled
        /\ Authentic(request[w])
        /\ CallsOf(w, "f") # {}

\* C2: per request the calls are ordered validate, get_blacklisted_response,
\* f: under forgery protection an accepting validate call precedes the
\* blacklist call and the call of f, the blacklist call (when enabled)
\* precedes the call of f, and a request answered 405 or 403 by the gate
\* never had get_blacklisted_response called.
C2_GateOrder ==
    \A w \in InFlight :
        /\ \A i \in CallsOf(w, "get_blacklisted_response") \cup CallsOf(w, "f") :
                Enforced => \E j \in CallsOf(w, "validate") :
                                j < i /\ calls[w][j].result
        /\ \A i \in CallsOf(w, "f") :
                BlacklistEnabled =>
                    \E j \in CallsOf(w, "get_blacklisted_response") : j < i
        /\ \A i \in CallsOf(w, "validate") :
                \A j \in CallsOf(w, "get_blacklisted_response") \cup CallsOf(w, "f") :
                    i < j
        /\ GateRejected(w) => CallsOf(w, "get_blacklisted_response") = {}

C2_Witness ==
    \E w \in Finished :
        /\ Enforced /\ BlacklistEnabled
        /\ Len(calls[w]) = 3
        /\ calls[w][1].fn = "validate"
        /\ calls[w][2].fn = "get_blacklisted_response"
        /\ calls[w][3].fn = "f"

\* C3 as stated: under forgery protection every request without the
\* signature header is answered 403, with neither f nor
\* get_blacklisted_response called.
C3_Original ==
    \A w \in Finished :
        (Enforced /\ ~HasHeader(request[w])) =>
            /\ Returned403(w)
            /\ CallsOf(w, "f") = {}
            /\ CallsOf(w, "get_blacklisted_response") = {}

\* C3 amended: under forgery protection a GET or POST request without the
\* signature header is answered 403, a request of another method without
\* the header is answered 405, and in both cases neither f nor
\* get_blacklisted_response is called.
C3_MissingHeaderRejected ==
    \A w \in Finished :
        (Enforced /\ ~HasHeader(request[w])) =>
            /\ request[w].method \in {"GET", "POST"} =>
                    (Returned403(w) /\ result[w].line = 114)
            /\ request[w].method \notin {"GET", "POST"} => Returned405(w)
            /\ calls[w] = <<>>

C3_Witness ==
    \E w \in Finished :
        /\ Enforced /\ ~HasHeader(request[w]) /\ SecretAvailable
        /\ request[w].method = "POST"
        /\ Returned403(w)

\* C4: under forgery protection a request whose method is neither GET nor
\* POST is answered 405 whatever its signature header, and nothing else
\* ran: no validator was built, no collaborator was called.
C4_MethodNotAllowed ==
    \A w \in Finished :
        (Enforced /\ request[w].method \notin {"GET", "POST"}) =>
            /\ Returned405(w)
            /\ result[w].value.allow = request[w].method
            /\ calls[w] = <<>>
            /\ trace[w] = <<"enforce", "method">>
            /\ locals[w].validator = NoLocals.validator

C4_Witness ==
    \E w \in Finished :
        /\ Enforced /\ SecretAvailable
        /\ request[w].method = "PUT"
        /\ HasHeader(request[w])
        /\ request[w].META[SignatureHeader] =
                compute_signature(token.val, AbsoluteUri(request[w]),
                                  request[w].GET)
        /\ Returned405(w)

\* C5: under forgery protection a GET or POST request meets a missing
\* secret with 403; and every rejection (method, missing header, missing
\* secret, signature mismatch, denial) ends in a returned response, 405,
\* 403 or the blacklist response, never in a raised exception.
C5_RejectionsAreResponses ==
    \A w \in Finished :
        /\ (Enforced /\ request[w].method \in {"GET", "POST"}
                /\ ~SecretAvailable) => Returned403(w)
        /\ (Enforced /\ request[w].method \notin {"GET", "POST"})
                => Returned405(w)
        /\ (Enforced /\ request[w].method \in {"GET", "POST"}
                /\ ~Authentic(request[w])) => Returned403(w)
        /\ ((Enforced => Authentic(request[w])) /\ BlacklistEnabled
                /\ get_blacklisted_response(request[w]) # None)
                => (Returned(w) /\ result[w].value \in RejectResponses)
        /\ CallsOf(w, "f") = {} => Returned(w)

C5_Witness ==
    \E w \in Finished :
        /\ Enforced /\ ~SecretAvailable
        /\ request[w].method = "GET"
        /\ HasHeader(request[w])
        /\ Returned403(w)

\* C6: when get_blacklisted_response is called and returns a response, the
\* call of decorated_view returns that very response and f is not called,
\* with and without forgery protection.
C6_DenialReturnedVerbatim ==
    \A w \in InFlight :
        \A i \in CallsOf(w, "get_blacklisted_response") :
            calls[w][i].result # None =>
                /\ CallsOf(w, "f") = {}
                /\ i = Len(calls[w])
                /\ pc[w] = "done"
                /\ result[w] = [kind |-> "return", value |-> calls[w][i].result,
                                line |-> 132]
                /\ calls[w][i].result = get_blacklisted_response(request[w])

C6_Witness ==
    \E w \in Finished :
        /\ Enforced
        /\ \E i \in CallsOf(w, "get_blacklisted_response") :
            /\ calls[w][i].result \in RejectResponses
            /\ Authentic(request[w])
            /\ result[w].value = calls[w][i].result

\* C7: with DEBUG on and no explicit forgery-protection setting the gate
\* answers no request with its own 405 or 403, whatever the method and
\* with or without a signature: validate is not called, the blacklist check
\* runs (calling get_blacklisted_response when it is enabled) and, unless
\* the caller is denied, f is called.
C7_DebugBypass ==
    \A w \in Finished :
        (settings["DEBUG"]
            /\ "DJANGO_TWILIO_FORGERY_PROTECTION" \notin DOMAIN settings) =>
            /\ ~GateRejected(w)
            /\ ~Ran(w, "method") /\ ~Ran(w, "assemble") /\ ~Ran(w, "validate")
            /\ CallsOf(w, "validate") = {}
            /\ Ran(w, "blacklist")
            /\ BlacklistEnabled => CallsOf(w, "get_blacklisted_response") # {}
            /\ (BlacklistEnabled => get_blacklisted_response(request[w]) = None)
                    => CallsOf(w, "f") # {}

C7_Witness ==
    \E w \in Finished :
        /\ settings["DEBUG"]
        /\ "DJANGO_TWILIO_FORGERY_PROTECTION" \notin DOMAIN settings
        /\ request[w].method = "PUT"
        /\ ~HasHeader(request[w])
        /\ BlacklistEnabled
        /\ CallsOf(w, "get_blacklisted_response") # {}
        /\ CallsOf(w, "f") # {}

C9_AuthenticRequestServed ==
    \A w \in Finished :
        (Enforced /\ Authentic(request[w])
            /\ (BlacklistEnabled => get_blacklisted_response(request[w]) = None))
        =>
            /\ Cardinality(CallsOf(w, "f")) = 1
            /\ ~GateRejected(w)
            /\ \A i \in CallsOf(w, "f") :
                LET ret == calls[w][i].result IN
                /\ calls[w][i].raised => result[w].kind = "raise"
                /\ ~calls[w][i].raised =>
                    /\ Returned(w)
                    /\ ret.type \in {"str", "bytes"} =>
                        result[w].value =
                            [type |-> "HttpResponse", status |-> 200,
                             content_type |-> "application/xml",
                             content |-> ret]
                    /\ ret.type = "Verb" =>
                        result[w].value =
                            [type |-> "HttpResponse", status |-> 200,
                             content_type |-> "application/xml",
                             content |-> Str(ret.xml)]
                    /\ ret.type \notin {"str", "bytes", "Verb"} =>
                        result[w].value = ret

C9_Witness ==
    \E w \in Finished :
        /\ Enforced /\ Authentic(request[w]) /\ BlacklistEnabled
        /\ request[w].method = "POST"
        /\ request[w].POST = ("Body" :> "hi" @@ "From" :> "+15557654321")
        /\ \E i \in CallsOf(w, "f") : calls[w][i].result = Str("<Response/>")
        /\ Returned(w)
        /\ result[w].value.status = 200
        /\ result[w].value.content_type = "application/xml"

\* C10: verification calls validate exactly once, with the request's
\* absolute URL, the value of the signature header, and request.GET for a
\* GET request, request.POST for a POST request; when validate rejects,
\* decorated_view returns 403 and calls nothing else.
C10_ValidateArguments ==
    \A w \in InFlight :
        /\ Cardinality(CallsOf(w, "validate")) <= 1
        /\ (pc[w] = "done" /\ Enforced /\ request[w].method \in {"GET", "POST"}
                /\ HasHeader(request[w]) /\ SecretAvailable)
                => Cardinality(CallsOf(w, "validate")) = 1
        /\ \A i \in CallsOf(w, "validate") :
            /\ i = 1
            /\ calls[w][i].url = AbsoluteUri(request[w])
            /\ calls[w][i].signature = request[w].META[SignatureHeader]
            /\ request[w].method = "GET" => calls[w][i].params = request[w].GET
            /\ request[w].method = "POST" => calls[w][i].params = request[w].POST
            /\ request[w].method \in {"GET", "POST"}
            /\ ~calls[w][i].result =>
                /\ pc[w] = "done"
                /\ Returned403(w)
                /\ Len(calls[w]) = 1

C10_Witness ==
    \E w \in Finished :
        /\ CallsOf(w, "validate") = {1}
        /\ request[w].method = "POST"
        /\ request[w].GET # request[w].POST
        /\ request[w].META[SignatureHeader] =
                compute_signature(token.val, AbsoluteUri(request[w]),
                                  request[w].GET)
        /\ ~calls[w][1].result
        /\ Returned403(w)

\* C11: when f returns text or bytes, decorated_view returns a 200 response
\* of content type application/xml whose body is that value as it is; when
\* f returns a Verb, the body is str() of the Verb and the response is
\* otherwise the same.
C11_MarkupWrapped ==
    \A w \in Finished :
        \A i \in CallsOf(w, "f") :
            LET ret == calls[w][i].result IN
            ~calls[w][i].raised =>
                /\ ret.type \in {"str", "bytes"} =>
                    /\ result[w].kind = "return" /\ result[w].line = 137
                    /\ result[w].value.type = "HttpResponse"
                    /\ result[w].value.status = 200
                    /\ result[w].value.content_type = "application/xml"
                    /\ result[w].value.content = ret
                /\ ret.type = "Verb" =>
                    /\ result[w].kind = "return" /\ result[w].line = 139
                    /\ result[w].value.type = "HttpResponse"
                    /\ result[w].value.status = 200
                    /\ result[w].value.content_type = "application/xml"
                    /\ result[w].value.content = Str(ret.xml)

C11_Witness ==
    \E w \in Finished :
        /\ \E i \in CallsOf(w, "f") : calls[w][i].result = Bytes("<Response/>")
        /\ result[w].kind = "return"
        /\ result[w].value.content = Bytes("<Response/>")
        /\ result[w].value.content_type = "application/xml"

\* C12: when f returns a value that is neither text, bytes nor a Verb,
\* decorated_view returns that very value: same status, same content type,
\* same body, nothing wrapped around it.
C12_ResponsePassedThrough ==
    \A w \in Finished :
        \A i \in CallsOf(w, "f") :
            LET ret == calls[w][i].result IN
            (~calls[w][i].raised /\ ret.type \notin {"str", "bytes", "Verb"}) =>
                result[w] = [kind |-> "return", value |-> ret, line |-> 141]

C12_Witness ==
    \E w \in Finished :
        /\ \E i \in CallsOf(w, "f") :
            /\ ~calls[w][i].raised
            /\ calls[w][i].result.type = "HttpResponse"
            /\ result[w].kind = "return"
            /\ result[w].value = calls[w][i].result
            /\ result[w].value.content_type = "text/html"

C15_OnlyComputedSignatureAccepted ==
    \A w \in Finished :
        (Enforced /\ SecretAvailable /\ request[w].method \in {"GET", "POST"}) =>
            LET req == request[w]
                expected == compute_signature(token.val, AbsoluteUri(req),
                                              MethodParams(req))
                matches == HasHeader(req) /\ req.META[SignatureHeader] = expected
            IN
            /\ matches =>
                /\ ~Returned403(w)
                /\ Ran(w, "blacklist")
                /\ \E i \in CallsOf(w, "validate") : calls[w][i].result
            /\ ~matches =>
                /\ Returned403(w)
                /\ \A i \in 1..Len(calls[w]) :
                        calls[w][i].fn = "validate" /\ ~calls[w][i].result

C15_Witness ==
    \E w \in Finished :
        /\ Enforced /\ SecretAvailable
        /\ request[w].method = "GET"
        /\ HasHeader(request[w])
        /\ request[w].META[SignatureHeader] =
                Tampered(compute_signature(token.val, AbsoluteUri(request[w]),
                                           request[w].GET))
        /\ Returned403(w)

\* position of each statement of decorated_view in the order of the gates
GateRank(stmt) ==
    CASE stmt = "enforce" -> 1
      [] stmt = "method" -> 2
      [] stmt = "assemble" -> 3
      [] stmt = "validate" -> 4
      [] stmt = "blacklist" -> 5
      [] stmt = "view" -> 6
      [] stmt = "coerce" -> 7
      [] stmt = "done" -> 8
      [] OTHER -> 0

\* C18: a request passes the gates in their order, each at most once, and
\* ends with one outcome: get_blacklisted_response and f are called at most
\* once, an unfinished request has no outcome yet and can always take its
\* next step, a finished one has exactly one (a return or a raise).
C18_LinearTraversal ==
    \A w \in InFlight :
        /\ \A i, j \in 1..Len(trace[w]) :
                i < j => GateRank(trace[w][i]) < GateRank(trace[w][j])
        /\ \A i \in 1..Len(trace[w]) :
                GateRank(trace[w][i]) < GateRank(pc[w])
        /\ GateRank(pc[w]) \in 1..8
        /\ Cardinality(CallsOf(w, "get_blacklisted_response")) <= 1
        /\ Cardinality(CallsOf(w, "f")) <= 1
        /\ Cardinality(CallsOf(w, "validate")) <= 1
        /\ pc[w] # "done" =>
            /\ result[w] = NoResult
            /\ ENABLED (\/ DetermineEnforcement(w) \/ MethodCheck(w)
                        \/ AssembleInputs(w) \/ Validate(w)
                        \/ BlacklistCheck(w) \/ InvokeView(w)
                        \/ CoerceResult(w))
        /\ pc[w] = "done" => result[w].kind \in {"return", "raise"}

C18_Witness ==
    \E w \in Finished :
        /\ trace[w] = <<"enforce", "method", "assemble", "validate",
                        "blacklist", "view", "coerce">>
        /\ result[w].kind = "return"

\* the calls a request makes when handled alone, by the decision flow:
\* method check, verification, deny-list check, handler
ExpectedCalls(req) ==
    LET checked == Enforced /\ req.method \in {"GET", "POST"}
                        /\ HasHeader(req) /\ SecretAvailable
        v == IF checked THEN <<"validate">> ELSE <<>>
        b == IF BlacklistEnabled THEN <<"get_blacklisted_response">> ELSE <<>>
    IN
    IF Enforced /\ ~Authentic(req) THEN v
    ELSE IF BlacklistEnabled /\ get_blacklisted_response(req) # None
    THEN v \o b
    ELSE v \o b \o <<"f">>

\* the outcome of worker w is the one its request has when handled alone
MatchesSequentialOutcome(w) ==
    LET req == request[w]
        n == Len(calls[w])
    IN
    /\ [i \in 1..n |-> calls[w][i].fn] = ExpectedCalls(req)
    /\ IF Enforced /\ req.method \notin {"GET", "POST"} THEN Returned405(w)
       ELSE IF Enforced /\ ~Authentic(req) THEN Returned403(w)
       ELSE IF BlacklistEnabled /\ get_blacklisted_response(req) # None
       THEN Returned(w) /\ result[w].value = get_blacklisted_response(req)
       ELSE /\ n > 0
            /\ calls[w][n].fn = "f"
            /\ IF calls[w][n].raised THEN result[w].kind = "raise"
               ELSE LET ret == calls[w][n].result IN
                    /\ Returned(w)
                    /\ result[w].value =
                        IF ret.type \in {"str", "bytes"}
                        THEN [type |-> "HttpResponse", status |-> 200,
                              content_type |-> "application/xml",
                              content |-> ret]
                        ELSE IF ret.type = "Verb"
                        THEN [type |-> "HttpResponse", status |-> 200,
                              content_type |-> "application/xml",
                              content |-> Str(ret.xml)]
                        ELSE ret

\* C13: applied to a view function, to a method of a view class or to a
\* View subclass (on its dispatch), twilio_view yields the same gate:
\* decorated_view gets the HttpRequest as its request and takes the decisions
\* the request takes on a plain function view, f being called on the
\* receiver for a method and a class.
C13_SameGateForEveryForm ==
    \A w \in Finished :
        view.thing \in {"function", "method_function", "method", "class"} =>
            /\ view.state = "wired"
            /\ IsHttpRequest(request[w])
            /\ WellFormedRequest(request[w])
            /\ MatchesSequentialOutcome(w)
            /\ \A i \in CallsOf(w, "f") :
                /\ calls[w][i].request = request[w]
                /\ calls[w][i].self =
                    IF view.thing = "function" THEN None ELSE SelfObject

\* C14 as stated: applying twilio_view to something that is neither a
\* function, a method nor a View subclass fails when it is applied, so that
\* no request is ever handled by the result; and no call of decorated_view
\* raises anything but what f itself raised.
C14_Original ==
    /\ view.thing \in {"other_class", "object"} =>
        /\ view.state # "wired"
        /\ \A w \in DOMAIN pc : pc[w] = "idle"
    /\ \A w \in Finished :
        result[w].kind = "raise" => result[w].exc = "Exception"

\* C17: with several calls of decorated_view in flight, each call ends as
\* its request ends when handled alone under the same configuration, and
\* its collaborators were called with its own request and signature.
C17_RequestsIndependent ==
    \A w \in Finished :
        /\ MatchesSequentialOutcome(w)
        /\ \A i \in 1..Len(calls[w]) :
            /\ calls[w][i].fn \in {"get_blacklisted_response", "f"} =>
                    calls[w][i].request = request[w]
            /\ calls[w][i].fn = "validate" =>
                /\ calls[w][i].signature = request[w].META[SignatureHeader]
                /\ calls[w][i].url = AbsoluteUri(request[w])

C17_Witness ==
    \E w1, w2 \in Finished :
        /\ w1 # w2
        /\ request[w1] # request[w2]
        /\ Enforced
        /\ Returned403(w1)
        /\ CallsOf(w1, "validate") # {}
        /\ CallsOf(w2, "f") # {}
        /\ CallsOf(w2, "validate") # {}

====
